---- MODULE Spec2Model ----
(***************************************************************************)
(* Model of the poker round engine: Game.play_round, Game.betting_round    *)
(* and the Player / AIPlayer operations they call.  Chip amounts are       *)
(* integers; player lists are sequences of seat numbers.                   *)
(***************************************************************************)
EXTENDS Integers, Sequences, FiniteSets, TLC

\* ---------------------------------------------------------------- bounds
NumSeats == 3          \* players handed to Game(...)
StartChips == 3        \* chips each player is constructed with
MaxBelowZero == 1      \* how far below zero an amount typed after "raise to" goes
MaxAmount == 2         \* largest amount typed after "raise to"
MaxExtra == 1          \* largest amount an AI adds on top of the call
MaxDecisions == 5      \* decisions requested over the whole game
MaxRounds == 2         \* calls of play_round
MaxPlainDecisions == 9 \* decisions requested at a table of plain players

\* ------------------------------------------------------ program constants
small_blind == 5
big_blind == 10

Seats == 1..NumSeats

VARIABLES
    players,            \* Game.players (sequence of seats)
    kind,               \* seat -> "human" (Player) or "ai" (AIPlayer)
    chips,              \* Player.chips
    player_bet,         \* Player.current_bet
    folded,             \* Player.folded
    all_in,             \* Player.all_in
    is_small_blind,     \* Player.is_small_blind
    is_big_blind,       \* Player.is_big_blind
    hand,               \* number of hole cards held (len(Player.hand))
    pot,                \* Game.pot
    current_bet,        \* Game.current_bet
    dealer_position,    \* Game.dealer_position (0-based, -1 before any round)
    game_stage,         \* Game.game_stage
    community_cards,    \* len(Game.community_cards)
    active_players,     \* Game.active_players (sequence of seats)
    round_active,       \* Game.round_active
    action_order,       \* betting_round local
    players_who_acted,  \* betting_round local
    all_bets_equal,     \* betting_round local
    idx,                \* position of the for loop in action_order (1-based)
    pending,            \* (action, amount) returned by parse_action
    pc,                 \* control point
    rounds,             \* calls of play_round so far
    decisions,          \* decisions requested so far
    last_raiser,        \* history: seat of the last applied raise this street, 0 if none
    asked_since_raise,  \* history: seats that answered a decision since that raise
    asked_before_raise, \* history: seats that had answered this street before that raise
    before,             \* history: the asked seat's stack and bet, pot and current_bet
                        \*          when its decision was requested
    allin_raiser,       \* history: seat of the last all-in above current_bet this street
    asked_since_allin,  \* history: seats that answered a decision since that all-in
    cards,              \* Deck.cards (sequence of cards, dealt from the end)
    hole,               \* Player.hand (sequence of cards)
    board,              \* Game.community_cards (sequence of cards)
    last_asked,         \* history: seat asked last in this betting round, 0 if none
    evaluated,          \* seat -> number of cards handed to evaluate_hand for it
                        \*         in the step just taken, -1 if it was not called
    scores              \* seat -> what evaluate_hand returned for it at the showdown

vars == <<players, kind, chips, player_bet, folded, all_in, is_small_blind,
          is_big_blind, hand, pot, current_bet, dealer_position, game_stage,
          community_cards, active_players, round_active, action_order,
          players_who_acted, all_bets_equal, idx, pending, pc, rounds,
          decisions, last_raiser, asked_since_raise, asked_before_raise,
          before, allin_raiser, asked_since_allin, cards, hole, board,
          last_asked, evaluated, scores>>

\* ---------------------------------------------------------------- helpers
ToSet(s) == {s[i] : i \in 1..Len(s)}

RECURSIVE SumOver(_, _)
SumOver(f, S) == IF S = {} THEN 0
                 ELSE LET x == CHOOSE y \in S : TRUE IN f[x] + SumOver(f, S \ {x})

Min2(a, b) == IF a < b THEN a ELSE b
Max2(a, b) == IF a > b THEN a ELSE b

\* a remove that leaves the list as it was
ListRemove_kept(s, x) == s

\* list.remove(x): drops the first occurrence
ListRemove(s, x) ==
    LET i == CHOOSE j \in 1..Len(s) : s[j] = x /\ \A k \in 1..(j - 1) : s[k] # x
    IN  SubSeq(s, 1, i - 1) \o SubSeq(s, i + 1, Len(s))

NoAction == [action |-> "none", amount |-> 0]

\* no decision is being answered
NoBefore == [chips |-> 0, bet |-> 0, pot |-> 0, current_bet |-> 0]

\* Python's None, where evaluate_hand and determine_winner use it
None == <<>>

\* evaluate_hand was called for no seat
NoEvaluation == [p \in Seats |-> 0 - 1]

\* no seat has a result
NoScores == [p \in Seats |-> [rank |-> 0, high |-> None]]

\* ------------------------------------------------------------ Player (player.py)
\* A player's chip state as the methods below see it.
PlayerState(p) == [chips |-> chips[p], bet |-> player_bet[p],
                   all_in |-> all_in[p], err |-> FALSE]

\* Player.place_bet: ValueError when amount > chips, else move the chips.
place_bet(st, amount) ==
    IF amount > st.chips
    THEN [st EXCEPT !.err = TRUE]
    ELSE [chips  |-> st.chips - amount,
          bet    |-> st.bet + amount,
          all_in |-> IF st.chips - amount = 0 THEN TRUE ELSE st.all_in,
          err    |-> FALSE]

\* Player.call(amount)
call(st, amount) ==
    LET call_amount == amount - st.bet
    IN  IF call_amount > st.chips THEN place_bet(st, st.chips)
        ELSE place_bet(st, call_amount)

\* Player.raise_bet(amount)
raise_bet(st, amount) == place_bet(st, amount)

\* Player.all_in_bet()
all_in_bet(st) == place_bet(st, st.chips)

\* a win_pot that forgets to add the amount
win_pot_dropped(c, amount) == c

\* Player.win_pot(amount), on the player's chips
win_pot(c, amount) == c + amount

\* ------------------------------------------------ Card, Deck (card.py, deck.py)
\* Card.SUITS and the keys of Card.RANKS, in the order the code lists them
SUITS == <<"Hearts", "Diamonds", "Clubs", "Spades">>
RANKS == <<"2", "3", "4", "5", "6", "7", "8", "9", "10",
           "Jack", "Queen", "King", "Ace">>

Card(suit, rank) == [suit |-> suit, rank |-> rank]

\* a deck whose ranks cycle through all ranks but the last
NewDeck_repeated ==
    [i \in 1..(Len(SUITS) * Len(RANKS)) |->
        Card(SUITS[((i - 1) \div Len(RANKS)) + 1],
             RANKS[((i - 1) % (Len(RANKS) - 1)) + 1])]

\* Deck.__init__: [Card(suit, rank) for suit in SUITS for rank in RANKS.keys()]
NewDeck ==
    [i \in 1..(Len(SUITS) * Len(RANKS)) |->
        Card(SUITS[((i - 1) \div Len(RANKS)) + 1],
             RANKS[((i - 1) % Len(RANKS)) + 1])]

\* Deck.cut: the two slice assignments of the tuple assignment, left to right,
\* both right-hand sides having been evaluated first
cut(d, cut_index) ==
    LET back  == SubSeq(d, cut_index + 1, Len(d))     \* self.cards[cut_index:]
        front == SubSeq(d, 1, cut_index)              \* self.cards[:cut_index]
        \* self.cards[:cut_index] = back
        d1 == back \o SubSeq(d, cut_index + 1, Len(d))
        \* self.cards[cut_index:] = front
        d2 == SubSeq(d1, 1, Min2(cut_index, Len(d1))) \o front
    IN  d2

Reverse(d) == [i \in 1..Len(d) |-> d[Len(d) + 1 - i]]

\* Deck.shuffle: random.shuffle can leave any order; the orders followed here
Shuffles(d) == {d, Reverse(d)}

\* Deck.deal: pop the last card; IndexError on an empty deck
deal(d) ==
    IF Len(d) = 0 THEN [err |-> TRUE, cards |-> d, card |-> <<>>]
    ELSE [err |-> FALSE, cards |-> SubSeq(d, 1, Len(d) - 1), card |-> <<d[Len(d)]>>]

\* start_new_round, lines 127-131: reset_hand and two cards for each of
\* act[i..]; g holds the deck, the hands, the seats reached and the error flag
RECURSIVE deal_hands(_, _, _)
deal_hands(act, i, g) ==
    IF i > Len(act) \/ g.err THEN g
    ELSE LET p  == act[i]
             d1 == deal(g.cards)
             d2 == deal(d1.cards)
         IN  deal_hands(act, i + 1,
                 [cards   |-> d2.cards,
                  hole    |-> [g.hole EXCEPT ![p] = d1.card \o d2.card],
                  reached |-> g.reached \cup {p},
                  err     |-> d1.err \/ d2.err])

\* Game.deal_community_cards(number)
RECURSIVE deal_community_cards(_, _)
deal_community_cards(number, g) ==
    IF number = 0 \/ g.err THEN g
    ELSE LET d1 == deal(g.cards)
         IN  deal_community_cards(number - 1,
                 [cards |-> d1.cards, board |-> g.board \o d1.card, err |-> d1.err])

\* ------------------------------------- HandEvaluator (hand_evaluator.py)
\* Card.RANKS[rank]: '2' -> 2, ..., 'Ace' -> 14
RankValue(rank) == (CHOOSE i \in 1..Len(RANKS) : RANKS[i] = rank) + 1

HAND_RANKS ==
    [n \in {"High Card", "One Pair", "Two Pair", "Three of a Kind", "Straight",
            "Flush", "Full House", "Four of a Kind", "Straight Flush",
            "Royal Flush"} |->
        CASE n = "High Card"       -> 1
          [] n = "One Pair"        -> 2
          [] n = "Two Pair"        -> 3
          [] n = "Three of a Kind" -> 4
          [] n = "Straight"        -> 5
          [] n = "Flush"           -> 6
          [] n = "Full House"      -> 7
          [] n = "Four of a Kind"  -> 8
          [] n = "Straight Flush"  -> 9
          [] n = "Royal Flush"     -> 10]

MaxOf(S) == CHOOSE x \in S : \A y \in S : y <= x
MinOf(S) == CHOOSE x \in S : \A y \in S : x <= y

\* number of occurrences of x in the list s
RECURSIVE Count(_, _)
Count(s, x) ==
    IF s = <<>> THEN 0
    ELSE (IF Head(s) = x THEN 1 ELSE 0) + Count(Tail(s), x)

\* collections.Counter(s)
Counter(s) == [x \in ToSet(s) |-> Count(s, x)]

\* sorted(S) of a set of integers
RECURSIVE sorted(_)
sorted(S) ==
    IF S = {} THEN <<>>
    ELSE LET m == MinOf(S) IN <<m>> \o sorted(S \ {m})

RECURSIVE InsertDesc(_, _)
InsertDesc(x, s) ==
    IF s = <<>> THEN <<x>>
    ELSE IF x >= Head(s) THEN <<x>> \o s
    ELSE <<Head(s)>> \o InsertDesc(x, Tail(s))

\* sorted(s, reverse=True) of a list of integers
RECURSIVE sorted_reverse(_)
sorted_reverse(s) ==
    IF s = <<>> THEN <<>>
    ELSE InsertDesc(Head(s), sorted_reverse(Tail(s)))

\* Python's a > b on lists of integers: the first difference decides, and a
\* proper prefix is the smaller one
RECURSIVE ListGreater(_, _)
ListGreater(a, b) ==
    IF a = <<>> THEN FALSE
    ELSE IF b = <<>> THEN TRUE
    ELSE IF Head(a) # Head(b) THEN Head(a) > Head(b)
    ELSE ListGreater(Tail(a), Tail(b))

\* a comparison that looks at the tiebreak lists first
better_tiebreak_first(rank, highest_cards, best_rank, best_hand) ==
    ListGreater(highest_cards, best_hand)
        \/ (highest_cards = best_hand /\ rank > best_rank)

\* the comparison that ignores the tiebreak lists
better_by_rank_only(rank, highest_cards, best_rank, best_hand) ==
    rank > best_rank

\* hand_evaluator.py line 52 and game.py line 354:
\* rank > best_rank or (rank == best_rank and highest_cards > best_hand)
better(rank, highest_cards, best_rank, best_hand) ==
    rank > best_rank \/ (rank = best_rank /\ ListGreater(highest_cards, best_hand))

\* HandEvaluator.is_flush
is_flush(suit_counts) == \E s \in DOMAIN suit_counts : suit_counts[s] >= 5

\* the first window of five entries of ranks_list spanning exactly four
FirstWindow(ranks_list) ==
    LET starts == {i \in 1..(Len(ranks_list) - 4) :
                      ranks_list[i + 4] - ranks_list[i] = 4}
    IN  IF starts = {} THEN None ELSE <<ranks_list[MinOf(starts) + 4]>>

\* a detection that reads the Ace as the highest rank only
is_straight_ace_high(ranks) ==
    LET w1 == FirstWindow(sorted(ToSet(ranks)))
    IN  IF w1 # None THEN [ok |-> TRUE, high |-> w1[1]]
        ELSE [ok |-> FALSE, high |-> 0]

\* HandEvaluator.is_straight: (is_straight, straight_high)
is_straight(ranks) ==
    LET unique_ranks == ToSet(ranks)
        sorted_ranks == sorted(unique_ranks)
        sorted_ranks_with_low_ace ==
            IF 14 \in unique_ranks
            THEN <<1>> \o SubSeq(sorted_ranks, 1, Len(sorted_ranks) - 1)
            ELSE sorted_ranks
        w1 == FirstWindow(sorted_ranks)
        w2 == FirstWindow(sorted_ranks_with_low_ace)
    IN  IF w1 # None THEN [ok |-> TRUE, high |-> w1[1]]
        ELSE IF w2 # None THEN [ok |-> TRUE, high |-> w2[1]]
        ELSE [ok |-> FALSE, high |-> 0]

\* HandEvaluator.get_rank_by_count (asked only for a count that occurs)
get_rank_by_count(rank_counts, count) ==
    MaxOf({r \in DOMAIN rank_counts : rank_counts[r] = count})

\* HandEvaluator.get_ranks_by_count
get_ranks_by_count(rank_counts, count) ==
    Reverse(sorted({r \in DOMAIN rank_counts : rank_counts[r] = count}))

\* the high cards in the order the cards came in
get_high_cards_unsorted(ranks, exclude, count) ==
    LET high_cards == SelectSeq(ranks, LAMBDA r : r \notin ToSet(exclude))
    IN  SubSeq(high_cards, 1, Min2(count, Len(high_cards)))

\* HandEvaluator.get_high_cards
get_high_cards(ranks, exclude, count) ==
    LET high_cards == sorted_reverse(SelectSeq(ranks, LAMBDA r : r \notin ToSet(exclude)))
    IN  SubSeq(high_cards, 1, Min2(count, Len(high_cards)))

\* HandEvaluator.evaluate_five_card_hand
evaluate_five_card_hand(five) ==
    LET ranks == [i \in 1..Len(five) |-> RankValue(five[i].rank)]
        suits == [i \in 1..Len(five) |-> five[i].suit]
        rank_counts == Counter(ranks)
        suit_counts == Counter(suits)
        counts == {rank_counts[r] : r \in DOMAIN rank_counts}
        flush == is_flush(suit_counts)
        straight == is_straight(ranks)
        three_ranks == get_ranks_by_count(rank_counts, 3)
        remaining_ranks == {r \in DOMAIN rank_counts :
                               rank_counts[r] >= 2 /\ r \notin ToSet(three_ranks)}
        pairs == get_ranks_by_count(rank_counts, 2)
        top_two_pairs == SubSeq(pairs, 1, 2)
    IN  IF flush /\ straight.ok
        THEN IF straight.high = 14
             THEN [rank |-> HAND_RANKS["Royal Flush"], high |-> <<14>>]
             ELSE [rank |-> HAND_RANKS["Straight Flush"], high |-> <<straight.high>>]
        ELSE IF 4 \in counts
        THEN LET four_rank == get_rank_by_count(rank_counts, 4)
             IN  [rank |-> HAND_RANKS["Four of a Kind"],
                  high |-> <<four_rank>> \o get_high_cards(ranks, <<four_rank>>, 1)]
        ELSE IF 3 \in counts /\ remaining_ranks # {}
        THEN [rank |-> HAND_RANKS["Full House"],
              high |-> <<MaxOf(ToSet(three_ranks)), MaxOf(remaining_ranks)>>]
        ELSE IF flush
        THEN [rank |-> HAND_RANKS["Flush"], high |-> sorted_reverse(ranks)]
        ELSE IF straight.ok
        THEN [rank |-> HAND_RANKS["Straight"], high |-> <<straight.high>>]
        ELSE IF 3 \in counts
        THEN LET three_rank == get_rank_by_count(rank_counts, 3)
             IN  [rank |-> HAND_RANKS["Three of a Kind"],
                  high |-> <<three_rank>> \o get_high_cards(ranks, <<three_rank>>, 2)]
        ELSE IF Len(pairs) >= 2
        THEN [rank |-> HAND_RANKS["Two Pair"],
              high |-> top_two_pairs \o get_high_cards(ranks, top_two_pairs, 1)]
        ELSE IF 2 \in counts
        THEN LET pair_rank == get_rank_by_count(rank_counts, 2)
             IN  [rank |-> HAND_RANKS["One Pair"],
                  high |-> <<pair_rank>> \o get_high_cards(ranks, <<pair_rank>>, 3)]
        ELSE [rank |-> HAND_RANKS["High Card"],
              high |-> SubSeq(sorted_reverse(ranks), 1, Min2(5, Len(ranks)))]

\* itertools.combinations(s, r), in the order it yields them
RECURSIVE combinations(_, _)
combinations(s, r) ==
    IF r = 0 THEN << <<>> >>
    ELSE IF Len(s) < r THEN <<>>
    ELSE LET with    == combinations(Tail(s), r - 1)
             without == combinations(Tail(s), r)
         IN  [i \in 1..Len(with) |-> <<Head(s)>> \o with[i]] \o without

\* the loop of evaluate_hand over possible_hands[i..]
RECURSIVE best_of(_, _, _, _)
best_of(possible_hands, i, best_rank, best_hand) ==
    IF i > Len(possible_hands) THEN [rank |-> best_rank, high |-> best_hand]
    ELSE LET r == evaluate_five_card_hand(possible_hands[i])
         IN  IF better(r.rank, r.high, best_rank, best_hand)
             THEN best_of(possible_hands, i + 1, r.rank, r.high)
             ELSE best_of(possible_hands, i + 1, best_rank, best_hand)

\* an evaluation of the first five cards only
evaluate_hand_first(hnd, community) ==
    LET first == combinations(hnd \o community, 5)
    IN  IF first = <<>> THEN [rank |-> 0, high |-> None]
        ELSE evaluate_five_card_hand(first[1])

\* HandEvaluator.evaluate_hand(hand, community_cards)
evaluate_hand(hnd, community) ==
    best_of(combinations(hnd \o community, 5), 1, 0, None)

\* ------------------------------------------------------------ Game (game.py)
\* a table that keeps the players without chips
keep_broke_players(ps) == ps

\* Game.remove_broke_players
remove_broke_players(ps) == SelectSeq(ps, LAMBDA p : chips[p] > 0)

\* Game.rotate_positions: new dealer index and the two blind flags.
rotate_positions(ps) ==
    LET n  == Len(ps)
        dp == (dealer_position + 1) % n
        sbp == ps[((dp + 1) % n) + 1]
        bbp == ps[((dp + 2) % n) + 1]
    IN  [dealer_position |-> dp,
         is_small_blind  |-> [p \in Seats |-> IF p \in ToSet(ps) THEN p = sbp
                                              ELSE is_small_blind[p]],
         is_big_blind    |-> [p \in Seats |-> IF p \in ToSet(ps) THEN p = bbp
                                              ELSE is_big_blind[p]]]

\* Game.collect_blinds, from position i of the players list on.  g holds the
\* fields the loop reads and writes.
RECURSIVE collect_blinds(_, _)
collect_blinds(i, g) ==
    IF i > Len(g.players) THEN g
    ELSE LET p  == g.players[i]
             st == [chips |-> g.chips[p], bet |-> g.bet[p],
                    all_in |-> g.all_in[p], err |-> FALSE]
             post(blind) ==
                 LET blind_amount == Min2(blind, st.chips)
                     nst == place_bet(st, blind_amount)
                 IN  [g EXCEPT !.chips[p] = nst.chips, !.bet[p] = nst.bet,
                               !.all_in[p] = nst.all_in,
                               !.pot = @ + blind_amount,
                               !.current_bet = blind_amount]
         IN  collect_blinds(i + 1,
                 IF g.is_small_blind[p] THEN post(small_blind)
                 ELSE IF g.is_big_blind[p] THEN post(big_blind)
                 ELSE g)

\* The construction of action_order at the start of betting_round: cycle
\* through the players from the seat after the dealer, appending eligible
\* seats until the list is as long as active_players.
Eligible(p) == p \in ToSet(active_players) /\ ~folded[p] /\ ~all_in[p]

RECURSIVE build_action_order(_, _)
build_action_order(index, order) ==
    IF Len(order) >= Len(active_players) THEN order
    ELSE LET p == players[index + 1]
         IN  build_action_order((index + 1) % Len(players),
                                IF Eligible(p) THEN Append(order, p) ELSE order)

\* the while loop above never ends when no seat qualifies
build_never_ends ==
    /\ Len(active_players) > 0
    /\ \A i \in 1..Len(players) : ~Eligible(players[i])

\* Game.parse_action on what the provider typed: a word and, for a raise, an
\* optional number after "to".  NoNumber stands for a missing or unparsable one.
NoNumber == <<>>
parse_action(word, to) ==
    IF word = "fold" THEN [action |-> "fold", amount |-> 0]
    ELSE IF word = "check" THEN [action |-> "check", amount |-> 0]
    ELSE IF word = "call" THEN [action |-> "call", amount |-> current_bet]
    ELSE IF word = "raise"
         THEN [action |-> "raise",
               amount |-> IF to = NoNumber THEN current_bet * 2 ELSE to[1]]
    ELSE IF word = "all-in" THEN [action |-> "all-in", amount |-> 0]
    ELSE [action |-> "fold", amount |-> 0]

\* Any mix of Player (human) and AIPlayer seats can be handed to Game(...).
Rosters == [Seats -> {"human", "ai"}]

\* ------------------------------------------------------------------- Init
Init ==
    /\ players = [i \in 1..NumSeats |-> i]
    /\ kind \in Rosters
    /\ chips = [p \in Seats |-> StartChips]
    /\ player_bet = [p \in Seats |-> 0]
    /\ folded = [p \in Seats |-> FALSE]
    /\ all_in = [p \in Seats |-> FALSE]
    /\ is_small_blind = [p \in Seats |-> FALSE]
    /\ is_big_blind = [p \in Seats |-> FALSE]
    /\ hand = [p \in Seats |-> 0]
    /\ pot = 0
    /\ current_bet = 0
    /\ dealer_position = -1
    /\ game_stage = "pre-flop"
    /\ community_cards = 0
    /\ active_players = <<>>
    /\ round_active = FALSE
    /\ action_order = <<>>
    /\ players_who_acted = {}
    /\ all_bets_equal = TRUE
    /\ idx = 1
    /\ pending = NoAction
    /\ pc = "idle"
    /\ rounds = 0
    /\ decisions = 0
    /\ last_raiser = 0
    /\ asked_since_raise = {}
    /\ asked_before_raise = {}
    /\ before = NoBefore
    /\ allin_raiser = 0
    /\ asked_since_allin = {}
    /\ cards = <<>>
    /\ hole = [p \in Seats |-> <<>>]
    /\ board = <<>>
    /\ last_asked = 0
    /\ evaluated = NoEvaluation
    /\ scores = NoScores

\* ------------------------------------------------- play_round / start_new_round
\* play_round up to its first call of betting_round (start_new_round inlined).
StartNewRound ==
    /\ pc = "idle"
    /\ rounds < MaxRounds
    /\ rounds' = rounds + 1
    /\ LET ps == remove_broke_players(players) IN
       /\ players' = ps
       /\ IF Len(ps) < 2
          THEN /\ round_active' = FALSE
               /\ pc' = "idle"
               /\ UNCHANGED <<chips, player_bet, folded, all_in, is_small_blind,
                              is_big_blind, hand, pot, current_bet,
                              dealer_position, game_stage, community_cards,
                              active_players>>
          ELSE LET rot == rotate_positions(ps)
                   act == SelectSeq(ps, LAMBDA p : chips[p] > 0)
                   inAct(p) == p \in ToSet(act)
                   \* reset_hand for every active player, then two cards each
                   g0 == [players |-> ps,
                          is_small_blind |-> [p \in Seats |->
                              IF inAct(p) THEN FALSE ELSE rot.is_small_blind[p]],
                          is_big_blind |-> [p \in Seats |->
                              IF inAct(p) THEN FALSE ELSE rot.is_big_blind[p]],
                          chips |-> chips,
                          bet |-> [p \in Seats |-> IF inAct(p) THEN 0 ELSE player_bet[p]],
                          all_in |-> [p \in Seats |-> IF inAct(p) THEN FALSE ELSE all_in[p]],
                          pot |-> 0,
                          current_bet |-> 0]
                   g == collect_blinds(1, g0)
               IN  /\ round_active' = TRUE
                   /\ pc' = "betting"
                   /\ dealer_position' = rot.dealer_position
                   /\ active_players' = act
                   /\ is_small_blind' = g.is_small_blind
                   /\ is_big_blind' = g.is_big_blind
                   /\ chips' = g.chips
                   /\ player_bet' = g.bet
                   /\ all_in' = g.all_in
                   /\ folded' = [p \in Seats |-> IF inAct(p) THEN FALSE ELSE folded[p]]
                   /\ hand' = [p \in Seats |-> IF inAct(p) THEN 2 ELSE hand[p]]
                   /\ pot' = g.pot
                   /\ current_bet' = g.current_bet
                   /\ game_stage' = "pre-flop"
                   /\ community_cards' = 0
    /\ UNCHANGED <<kind, action_order, players_who_acted, all_bets_equal, idx,
                   pending, decisions, last_raiser, asked_since_raise,
                   asked_before_raise, before, allin_raiser,
                   asked_since_allin, cards, hole, board>>
    /\ UNCHANGED <<last_asked, evaluated, scores>>

\* ------------------------------------------------------------ betting_round
\* Entry of betting_round: reset the players' bets, build action_order, and
\* enter the first pass of the while loop.
BettingRoundStart ==
    /\ pc = "betting"
    /\ player_bet' = [p \in Seats |-> IF p \in ToSet(active_players) THEN 0
                                      ELSE player_bet[p]]
    /\ IF build_never_ends
       THEN /\ pc' = "hung"
            /\ action_order' = <<>>
       ELSE /\ pc' = "for"
            /\ action_order' = build_action_order(
                                  (dealer_position + 1) % Len(players), <<>>)
    /\ players_who_acted' = {}
    /\ all_bets_equal' = TRUE
    /\ idx' = 1
    /\ last_raiser' = 0
    /\ asked_since_raise' = {}
    /\ asked_before_raise' = {}
    /\ allin_raiser' = 0
    /\ asked_since_allin' = {}
    /\ UNCHANGED <<before, cards, hole, board>>
    /\ UNCHANGED <<players, kind, chips, folded, all_in, is_small_blind,
                   is_big_blind, hand, pot, current_bet, dealer_position,
                   game_stage, community_cards, active_players, round_active,
                   pending, rounds, decisions>>
    /\ last_asked' = 0
    /\ UNCHANGED <<evaluated, scores>>

\* One iteration header of "for player in action_order": skip, finish the
\* round, leave the loop, or go and ask the player.
ForNext ==
    /\ pc = "for"
    /\ IF idx > Len(action_order)
       THEN pc' = "endpass" /\ idx' = idx
       ELSE LET player == action_order[idx] IN
            IF folded[player] \/ all_in[player]
            THEN pc' = "for" /\ idx' = idx + 1
            ELSE IF players_who_acted = ToSet(active_players) /\ all_bets_equal
            THEN pc' = "returned" /\ idx' = idx
            ELSE pc' = "decide" /\ idx' = idx
    /\ UNCHANGED <<players, kind, chips, player_bet, folded, all_in,
                   is_small_blind, is_big_blind, hand, pot, current_bet,
                   dealer_position, game_stage, community_cards, active_players,
                   round_active, action_order, players_who_acted,
                   all_bets_equal, pending, rounds, decisions, last_raiser,
                   asked_since_raise,
                   asked_before_raise, before, allin_raiser,
                   asked_since_allin, cards, hole, board>>
    /\ UNCHANGED <<last_asked, evaluated, scores>>

\* End of a pass of the while loop: prune folded seats, stop when at most one
\* entry is left, else start the next pass.
EndOfPass ==
    /\ pc = "endpass"
    /\ LET order == SelectSeq(action_order, LAMBDA p : ~folded[p]) IN
       /\ action_order' = order
       /\ IF Len(order) <= 1
          THEN pc' = "returned" /\ UNCHANGED <<all_bets_equal, idx>>
          ELSE pc' = "for" /\ all_bets_equal' = TRUE /\ idx' = 1
    /\ UNCHANGED <<players, kind, chips, player_bet, folded, all_in,
                   is_small_blind, is_big_blind, hand, pot, current_bet,
                   dealer_position, game_stage, community_cards, active_players,
                   round_active, players_who_acted, pending, rounds, decisions,
                   last_raiser, asked_since_raise,
                   asked_before_raise, before, allin_raiser,
                   asked_since_allin, cards, hole, board>>
    /\ UNCHANGED <<last_asked, evaluated, scores>>

\* the seat the for loop is at
CurrentPlayer == action_order[idx]

Words == {"fold", "check", "call", "raise", "all-in", "other"}

\* Player.get_action (human): whatever is typed is returned; no game field
\* is touched.  record_decision, with the data collector every player of
\* simulation.py is built with, evaluates the seat's hand (player.py 291, 202).
HumanGetAction ==
    /\ pc = "decide"
    /\ kind[CurrentPlayer] = "human"
    /\ decisions < MaxDecisions
    /\ \E word \in Words :
         \E to \in {NoNumber} \cup {<<n>> : n \in (0 - MaxBelowZero)..MaxAmount} :
            /\ word # "raise" => to = NoNumber
            /\ pending' = parse_action(word, to)
    /\ before' = [chips |-> chips[CurrentPlayer], bet |-> player_bet[CurrentPlayer],
                  pot |-> pot, current_bet |-> current_bet]
    /\ pc' = "apply"
    /\ decisions' = decisions + 1
    /\ UNCHANGED <<players, kind, chips, player_bet, folded, all_in,
                   is_small_blind, is_big_blind, hand, pot, current_bet,
                   dealer_position, game_stage, community_cards, active_players,
                   round_active, action_order, players_who_acted,
                   all_bets_equal, idx, rounds, last_raiser, asked_since_raise,
                   asked_before_raise, allin_raiser,
                   asked_since_allin, cards, hole, board>>
    /\ last_asked' = CurrentPlayer
    /\ evaluated' = [NoEvaluation EXCEPT
                        ![CurrentPlayer] = hand[CurrentPlayer] + community_cards]
    /\ UNCHANGED scores

\* AIPlayer.decide_action, as the set of (action, amount) it can return.  The
\* hand-strength heuristics and the random draws are inputs; what is kept is
\* which branch can be taken for which call_amount / pot odds / stage.
decide_action(p) ==
    LET call_amount == current_bet - player_bet[p]
        \* sign of pot_odds
        pot_odds == IF pot + call_amount > 0 THEN call_amount ELSE 0
        postflop == game_stage # "pre-flop"
        raises == {e \in (0 - 1)..MaxExtra :
                      \/ e > 0
                      \/ e = 0 /\ postflop /\ pot_odds = 0
                      \/ e < 0 /\ postflop /\ pot_odds < 0}
    IN  (IF call_amount = 0 THEN {[action |-> "check", amount |-> 0]} ELSE {})
        \cup (IF call_amount # 0
              THEN {[action |-> "call", amount |-> call_amount]} ELSE {})
        \cup (IF pot_odds > 0 THEN {[action |-> "fold", amount |-> 0]} ELSE {})
        \cup {[action |-> "raise", amount |-> Min2(chips[p], call_amount + e)] :
                  e \in raises}

\* AIPlayer.get_action: decides, APPLIES the decision to itself, and returns
\* the action string that betting_round then parses.
AIGetAction ==
    /\ pc = "decide"
    /\ kind[CurrentPlayer] = "ai"
    /\ decisions < MaxDecisions
    /\ LET p == CurrentPlayer
           st == PlayerState(p)
       IN \E d \in decide_action(p) :
            LET nst == IF d.action = "call" THEN call(st, current_bet)
                       ELSE IF d.action = "raise" THEN raise_bet(st, d.amount)
                       ELSE st
            IN  /\ chips' = [chips EXCEPT ![p] = nst.chips]
                /\ player_bet' = [player_bet EXCEPT ![p] = nst.bet]
                /\ all_in' = [all_in EXCEPT ![p] = nst.all_in]
                /\ folded' = [folded EXCEPT ![p] = IF d.action = "fold" THEN TRUE ELSE @]
                /\ pending' = IF d.action = "raise"
                              THEN parse_action("raise", <<nst.bet>>)
                              ELSE parse_action(d.action, NoNumber)
    /\ before' = [chips |-> chips[CurrentPlayer], bet |-> player_bet[CurrentPlayer],
                  pot |-> pot, current_bet |-> current_bet]
    /\ pc' = "apply"
    /\ decisions' = decisions + 1
    /\ UNCHANGED <<players, kind, is_small_blind, is_big_blind, hand, pot,
                   current_bet, dealer_position, game_stage, community_cards,
                   active_players, round_active, action_order,
                   players_who_acted, all_bets_equal, idx, rounds, last_raiser,
                   asked_since_raise,
                   asked_before_raise, allin_raiser,
                   asked_since_allin, cards, hole, board>>
    /\ last_asked' = CurrentPlayer
    /\ evaluated' = [NoEvaluation EXCEPT
                        ![CurrentPlayer] = hand[CurrentPlayer] + community_cards]
    /\ UNCHANGED scores

\* Lines 262-271: record the seat as having acted, recompute all_bets_equal,
\* and return from betting_round when every active seat acted and matched.
AfterAction(p, acted) ==
    /\ players_who_acted' = acted \cup {p}
    /\ all_bets_equal' = (\A q \in ToSet(active_players') :
                             folded'[q] \/ all_in'[q] \/ player_bet'[q] = current_bet')
    /\ IF all_bets_equal' /\ players_who_acted' = ToSet(active_players')
       THEN pc' = "returned" /\ idx' = idx
       ELSE pc' = "for" /\ idx' = idx + 1

\* what no branch of betting_round touches
BettingFrame == /\ UNCHANGED <<players, kind, is_small_blind, is_big_blind, hand,
                               dealer_position, game_stage, community_cards,
                               round_active, action_order, rounds, decisions,
                               cards, hole, board, last_asked, scores>>
                /\ evaluated' = NoEvaluation

\* a check that is never refused
check_never_refused(p) == FALSE

\* line 230: a check is refused while the seat's bet is below current_bet
check_refused(p) == player_bet[p] < current_bet

\* a raise that keeps the acted set
acted_kept_after_raise(acted) == acted

\* line 249: a raise empties players_who_acted
acted_after_raise(acted) == {}

ApplyFold ==
    /\ pc = "apply"
    /\ pending.action = "fold"
    /\ LET p == CurrentPlayer IN
       /\ folded' = [folded EXCEPT ![p] = TRUE]
       /\ active_players' = ListRemove(active_players, p)
       /\ UNCHANGED <<chips, player_bet, all_in, pot, current_bet, last_raiser>>
       /\ asked_since_raise' = asked_since_raise \cup {p}
       /\ UNCHANGED <<asked_before_raise, allin_raiser>>
       /\ asked_since_allin' = asked_since_allin \cup {p}
       /\ AfterAction(p, players_who_acted)
    /\ pending' = NoAction
    /\ before' = NoBefore
    /\ BettingFrame

ApplyCheck ==
    /\ pc = "apply"
    /\ pending.action = "check"
    /\ LET p == CurrentPlayer IN
       /\ UNCHANGED <<chips, player_bet, all_in, pot, current_bet, folded,
                      active_players, last_raiser>>
       /\ asked_since_raise' = asked_since_raise \cup {p}
       /\ UNCHANGED <<asked_before_raise, allin_raiser>>
       /\ asked_since_allin' = asked_since_allin \cup {p}
       /\ IF check_refused(p)
          THEN \* "cannot check and must call or fold": continue
               /\ pc' = "for"
               /\ idx' = idx + 1
               /\ UNCHANGED <<players_who_acted, all_bets_equal>>
          ELSE AfterAction(p, players_who_acted)
    /\ pending' = NoAction
    /\ before' = NoBefore
    /\ BettingFrame

ApplyCall ==
    /\ pc = "apply"
    /\ pending.action = "call"
    /\ LET p == CurrentPlayer
           st == PlayerState(p)
           diff == current_bet - player_bet[p]
           call_amount == IF diff > chips[p] THEN chips[p] ELSE diff
           nst == call(st, current_bet)
       IN
       /\ chips' = [chips EXCEPT ![p] = nst.chips]
       /\ player_bet' = [player_bet EXCEPT ![p] = nst.bet]
       /\ all_in' = [all_in EXCEPT ![p] = nst.all_in]
       /\ pot' = pot + call_amount
       /\ UNCHANGED <<current_bet, folded, active_players, last_raiser>>
       /\ asked_since_raise' = asked_since_raise \cup {p}
       /\ UNCHANGED <<asked_before_raise, allin_raiser>>
       /\ asked_since_allin' = asked_since_allin \cup {p}
       /\ AfterAction(p, players_who_acted)
    /\ pending' = NoAction
    /\ before' = NoBefore
    /\ BettingFrame

ApplyRaise ==
    /\ pc = "apply"
    /\ pending.action = "raise"
    /\ LET p == CurrentPlayer
           st == PlayerState(p)
           amount == pending.amount
           diff == amount - player_bet[p]
           raise_amount == IF diff > chips[p] THEN chips[p] ELSE diff
           nst == raise_bet(st, amount)
       IN
       IF nst.err
       THEN \* ValueError from place_bet leaves betting_round and play_round
            /\ pc' = "crashed"
            /\ UNCHANGED <<chips, player_bet, all_in, pot, current_bet, folded,
                           active_players, players_who_acted, all_bets_equal,
                           idx, pending, last_raiser, asked_since_raise,
                   asked_before_raise, before, allin_raiser,
                           asked_since_allin>>
       ELSE /\ chips' = [chips EXCEPT ![p] = nst.chips]
            /\ player_bet' = [player_bet EXCEPT ![p] = nst.bet]
            /\ all_in' = [all_in EXCEPT ![p] = nst.all_in]
            /\ current_bet' = amount
            /\ pot' = pot + raise_amount
            /\ UNCHANGED <<folded, active_players>>
            /\ last_raiser' = p
            /\ asked_since_raise' = {}
            /\ asked_before_raise' = asked_before_raise \cup asked_since_raise
            /\ AfterAction(p, acted_after_raise(players_who_acted))
            /\ allin_raiser' = 0
            /\ asked_since_allin' = {}
            /\ pending' = NoAction
            /\ before' = NoBefore
    /\ BettingFrame

ApplyAllIn ==
    /\ pc = "apply"
    /\ pending.action = "all-in"
    /\ LET p == CurrentPlayer
           st == PlayerState(p)
           all_in_amount == chips[p]
           nst == all_in_bet(st)
       IN
       /\ chips' = [chips EXCEPT ![p] = nst.chips]
       /\ player_bet' = [player_bet EXCEPT ![p] = nst.bet]
       /\ all_in' = [all_in EXCEPT ![p] = IF nst.chips = 0 THEN TRUE ELSE nst.all_in]
       /\ pot' = pot + all_in_amount
       /\ current_bet' = Max2(current_bet, nst.bet)
       /\ UNCHANGED <<folded, active_players, last_raiser>>
       /\ asked_since_raise' = asked_since_raise \cup {p}
       /\ UNCHANGED asked_before_raise
       /\ IF nst.bet > current_bet
          THEN allin_raiser' = p /\ asked_since_allin' = {}
          ELSE /\ UNCHANGED allin_raiser
               /\ asked_since_allin' = asked_since_allin \cup {p}
       /\ AfterAction(p, players_who_acted)
    /\ pending' = NoAction
    /\ before' = NoBefore
    /\ BettingFrame

\* ---------------------------------------------------- play_round, continued
NextStage(st) == IF st = "pre-flop" THEN "flop"
                 ELSE IF st = "flop" THEN "turn" ELSE "river"

\* play_round after a betting_round returned: deal the next street and bet
\* again while more than one player is active, else go to the showdown.
AfterBetting ==
    /\ pc = "returned"
    /\ IF Len(active_players) > 1 /\ game_stage # "river"
       THEN /\ game_stage' = NextStage(game_stage)
            /\ community_cards' = community_cards
                                    + (IF game_stage = "pre-flop" THEN 3 ELSE 1)
            /\ pc' = "betting"
       ELSE /\ pc' = "showdown"
            /\ UNCHANGED <<game_stage, community_cards>>
    \* the locals of betting_round are gone
    /\ action_order' = <<>>
    /\ players_who_acted' = {}
    /\ all_bets_equal' = TRUE
    /\ idx' = 1
    /\ pending' = NoAction
    /\ UNCHANGED <<players, kind, chips, player_bet, folded, all_in,
                   is_small_blind, is_big_blind, hand, pot, current_bet,
                   dealer_position, active_players, round_active, rounds,
                   decisions, last_raiser, asked_since_raise, asked_before_raise,
          before, allin_raiser, asked_since_allin, cards, hole, board,
                   evaluated, scores>>
    /\ last_asked' = 0

\* What HandEvaluator.evaluate_hand returns for a seat at the showdown: a
\* category and a tie-break key (the key is kept as one ordered number).
\* the community cards and the hole cards of the showdowns followed here
ShowdownBoard ==
    <<Card("Hearts", "2"), Card("Diamonds", "7"), Card("Clubs", "9"),
      Card("Spades", "Jack"), Card("Hearts", "King")>>
ShowdownHoles ==
    {<<Card("Spades", "Ace"), Card("Diamonds", "3")>>,
     <<Card("Diamonds", "Ace"), Card("Clubs", "4")>>,
     <<Card("Clubs", "Ace"), Card("Spades", "8")>>,
     <<Card("Diamonds", "King"), Card("Clubs", "3")>>}

\* what evaluate_hand returns for them
Scores == {evaluate_hand(h, ShowdownBoard) : h \in ShowdownHoles}

RECURSIVE determine_winner_last(_, _, _, _, _)
RECURSIVE determine_winner(_, _, _, _, _)
\* a loop that lets a later seat take an exact tie
determine_winner_last(i, score, best_rank, best_hand, winner) ==
    IF i > Len(active_players) THEN winner
    ELSE LET player == active_players[i]
             rank_value == score[player].rank
             highest_cards == score[player].high
         IN  IF ~better(best_rank, best_hand, rank_value, highest_cards)
             THEN determine_winner_last(i + 1, score, rank_value, highest_cards, player)
             ELSE determine_winner_last(i + 1, score, best_rank, best_hand, winner)

\* Game.determine_winner over active_players[i..], given each seat's score.
determine_winner(i, score, best_rank, best_hand, winner) ==
    IF i > Len(active_players) THEN winner
    ELSE LET player == active_players[i]
             rank_value == score[player].rank
             highest_cards == score[player].high
         IN  IF better(rank_value, highest_cards, best_rank, best_hand)
             THEN determine_winner(i + 1, score, rank_value, highest_cards, player)
             ELSE determine_winner(i + 1, score, best_rank, best_hand, winner)

\* Game.showdown
Showdown ==
    /\ pc = "showdown"
    /\ IF Len(active_players) > 1
       THEN \E score \in [ToSet(active_players) -> Scores] :
               LET winner == determine_winner(1, score, 0, None, 0)
               IN  /\ chips' = [chips EXCEPT ![winner] = win_pot(@, pot)]
                   /\ scores' = [p \in Seats |->
                                    IF p \in ToSet(active_players) THEN score[p]
                                    ELSE NoScores[p]]
                   /\ evaluated' = [p \in Seats |->
                                       IF p \in ToSet(active_players)
                                       THEN hand[p] + community_cards
                                       ELSE NoEvaluation[p]]
       ELSE IF Len(active_players) = 1
       THEN LET winner == active_players[1]
            IN  /\ chips' = [chips EXCEPT ![winner] = win_pot(@, pot)]
                /\ UNCHANGED <<evaluated, scores>>
       ELSE UNCHANGED <<chips, evaluated, scores>>
    /\ pc' = "reset"
    /\ UNCHANGED <<players, kind, player_bet, folded, all_in, is_small_blind,
                   is_big_blind, hand, pot, current_bet, dealer_position,
                   game_stage, community_cards, active_players, round_active,
                   action_order, players_who_acted, all_bets_equal, idx,
                   pending, rounds, decisions, last_raiser, asked_since_raise,
                   asked_before_raise, before, allin_raiser,
                   asked_since_allin, cards, hole, board, last_asked>>

\* Game.reset_round, after which play_round returns
ResetRound ==
    /\ pc = "reset"
    /\ community_cards' = 0
    /\ pot' = 0
    /\ current_bet' = 0
    /\ game_stage' = "pre-flop"
    /\ round_active' = FALSE
    /\ LET inGame(p) == p \in ToSet(players) IN
       /\ hand' = [p \in Seats |-> IF inGame(p) THEN 0 ELSE hand[p]]
       /\ player_bet' = [p \in Seats |-> IF inGame(p) THEN 0 ELSE player_bet[p]]
       /\ folded' = [p \in Seats |-> IF inGame(p) THEN FALSE ELSE folded[p]]
       /\ all_in' = [p \in Seats |-> IF inGame(p) THEN FALSE ELSE all_in[p]]
       /\ is_small_blind' = [p \in Seats |-> IF inGame(p) THEN FALSE ELSE is_small_blind[p]]
       /\ is_big_blind' = [p \in Seats |-> IF inGame(p) THEN FALSE ELSE is_big_blind[p]]
    /\ pc' = "idle"
    /\ UNCHANGED <<players, kind, chips, dealer_position, active_players,
                   action_order, players_who_acted, all_bets_equal, idx,
                   pending, rounds, decisions, last_raiser, asked_since_raise,
                   asked_before_raise, before, allin_raiser,
                   asked_since_allin, cards, hole, board>>
    /\ evaluated' = NoEvaluation
    /\ scores' = NoScores
    /\ UNCHANGED last_asked

Next ==
    \/ StartNewRound
    \/ BettingRoundStart
    \/ ForNext
    \/ HumanGetAction
    \/ AIGetAction
    \/ ApplyFold
    \/ ApplyCheck
    \/ ApplyCall
    \/ ApplyRaise
    \/ ApplyAllIn
    \/ EndOfPass
    \/ AfterBetting
    \/ Showdown
    \/ ResetRound

Spec == Init /\ [][Next]_vars

\* ------------------------------------------------ a round up to the showdown
\* A table of Players who type only the plain words, and "raise to 1" for a
\* raise: rounds long enough to reach the showdown with several seats.
PlainWords == {"fold", "check", "call", "raise", "all-in"}

\* Player.get_action for such a player
PlainGetAction ==
    /\ pc = "decide"
    /\ kind[CurrentPlayer] = "plain"
    /\ decisions < MaxPlainDecisions
    /\ \E word \in PlainWords :
          pending' = parse_action(word, IF word = "raise" THEN <<1>> ELSE NoNumber)
    /\ before' = [chips |-> chips[CurrentPlayer], bet |-> player_bet[CurrentPlayer],
                  pot |-> pot, current_bet |-> current_bet]
    /\ pc' = "apply"
    /\ decisions' = decisions + 1
    /\ UNCHANGED <<players, kind, chips, player_bet, folded, all_in,
                   is_small_blind, is_big_blind, hand, pot, current_bet,
                   dealer_position, game_stage, community_cards, active_players,
                   round_active, action_order, players_who_acted,
                   all_bets_equal, idx, rounds, last_raiser, asked_since_raise,
                   asked_before_raise, allin_raiser,
                   asked_since_allin, cards, hole, board>>
    /\ last_asked' = CurrentPlayer
    /\ evaluated' = [NoEvaluation EXCEPT
                        ![CurrentPlayer] = hand[CurrentPlayer] + community_cards]
    /\ UNCHANGED scores

PlainInit ==
    \* Game(players=[...]) with two players or more
    /\ \E n \in 2..NumSeats : players = [i \in 1..n |-> i]
    /\ kind = [p \in Seats |-> "plain"]
    /\ chips = [p \in Seats |-> StartChips]
    /\ player_bet = [p \in Seats |-> 0]
    /\ folded = [p \in Seats |-> FALSE]
    /\ all_in = [p \in Seats |-> FALSE]
    /\ is_small_blind = [p \in Seats |-> FALSE]
    /\ is_big_blind = [p \in Seats |-> FALSE]
    /\ hand = [p \in Seats |-> 0]
    /\ pot = 0
    /\ current_bet = 0
    /\ dealer_position = -1
    /\ game_stage = "pre-flop"
    /\ community_cards = 0
    /\ active_players = <<>>
    /\ round_active = FALSE
    /\ action_order = <<>>
    /\ players_who_acted = {}
    /\ all_bets_equal = TRUE
    /\ idx = 1
    /\ pending = NoAction
    /\ pc = "idle"
    /\ rounds = 0
    /\ decisions = 0
    /\ last_raiser = 0
    /\ asked_since_raise = {}
    /\ asked_before_raise = {}
    /\ before = NoBefore
    /\ allin_raiser = 0
    /\ asked_since_allin = {}
    /\ cards = <<>>
    /\ hole = [p \in Seats |-> <<>>]
    /\ board = <<>>
    /\ last_asked = 0
    /\ evaluated = NoEvaluation
    /\ scores = NoScores

PlainNext ==
    \/ StartNewRound
    \/ BettingRoundStart
    \/ ForNext
    \/ PlainGetAction
    \/ ApplyFold
    \/ ApplyCheck
    \/ ApplyCall
    \/ ApplyRaise
    \/ ApplyAllIn
    \/ EndOfPass
    \/ AfterBetting
    \/ Showdown
    \/ ResetRound

PlainSpec == PlainInit /\ [][PlainNext]_vars

\* ------------------------------------------------------- posting the blinds
\* rotate_positions, collect_blinds and the entry of betting_round called one
\* after the other on a Game, the blind flags left as rotate_positions set
\* them, for every dealer position and for stacks below and above the blinds.
BlindStacks == {StartChips, big_blind + big_blind}

BlindInit ==
    \* Game(players=[...]) with two players or more
    /\ \E n \in 2..NumSeats : players = [i \in 1..n |-> i]
    /\ kind = [p \in Seats |-> "human"]
    /\ chips \in [Seats -> BlindStacks]
    /\ \A p \in Seats \ ToSet(players) : chips[p] = StartChips
    /\ player_bet = [p \in Seats |-> 0]
    /\ folded = [p \in Seats |-> FALSE]
    /\ all_in = [p \in Seats |-> FALSE]
    /\ is_small_blind = [p \in Seats |-> FALSE]
    /\ is_big_blind = [p \in Seats |-> FALSE]
    /\ hand = [p \in Seats |-> 0]
    /\ pot = 0
    /\ current_bet = 0
    /\ dealer_position \in (0 - 1)..(Len(players) - 1)
    /\ game_stage = "pre-flop"
    /\ community_cards = 0
    /\ active_players = <<>>
    /\ round_active = FALSE
    /\ action_order = <<>>
    /\ players_who_acted = {}
    /\ all_bets_equal = TRUE
    /\ idx = 1
    /\ pending = NoAction
    /\ pc = "idle"
    /\ rounds = 0
    /\ decisions = 0
    /\ last_raiser = 0
    /\ asked_since_raise = {}
    /\ asked_before_raise = {}
    /\ before = NoBefore
    /\ allin_raiser = 0
    /\ asked_since_allin = {}
    /\ cards = <<>>
    /\ hole = [p \in Seats |-> <<>>]
    /\ board = <<>>
    /\ last_asked = 0
    /\ evaluated = NoEvaluation
    /\ scores = NoScores

\* start_new_round, lines 124-127: rotate_positions and the active players
RotatePositions ==
    /\ pc = "idle"
    /\ LET rot == rotate_positions(players)
       IN  /\ dealer_position' = rot.dealer_position
           /\ is_small_blind' = rot.is_small_blind
           /\ is_big_blind' = rot.is_big_blind
    /\ active_players' = SelectSeq(players, LAMBDA p : chips[p] > 0)
    /\ round_active' = TRUE
    /\ pc' = "rotated"
    /\ UNCHANGED <<players, kind, chips, player_bet, folded, all_in, hand, pot,
                   current_bet, game_stage, community_cards, action_order,
                   players_who_acted, all_bets_equal, idx, pending, rounds,
                   decisions, last_raiser, asked_since_raise,
                   asked_before_raise, before, allin_raiser,
                   asked_since_allin, cards, hole, board, last_asked,
                   evaluated, scores>>

\* Game.collect_blinds
CollectBlinds ==
    /\ pc = "rotated"
    /\ LET g == collect_blinds(1, [players |-> players,
                                   is_small_blind |-> is_small_blind,
                                   is_big_blind |-> is_big_blind,
                                   chips |-> chips, bet |-> player_bet,
                                   all_in |-> all_in, pot |-> pot,
                                   current_bet |-> current_bet])
       IN  /\ chips' = g.chips
           /\ player_bet' = g.bet
           /\ all_in' = g.all_in
           /\ pot' = g.pot
           /\ current_bet' = g.current_bet
    /\ pc' = "betting"
    /\ UNCHANGED <<players, kind, folded, is_small_blind, is_big_blind, hand,
                   dealer_position, game_stage, community_cards,
                   active_players, round_active, action_order,
                   players_who_acted, all_bets_equal, idx, pending, rounds,
                   decisions, last_raiser, asked_since_raise,
                   asked_before_raise, before, allin_raiser,
                   asked_since_allin, cards, hole, board, last_asked,
                   evaluated, scores>>

BlindNext ==
    \/ RotatePositions
    \/ CollectBlinds
    \/ BettingRoundStart
    \/ ForNext

BlindSpec == BlindInit /\ [][BlindNext]_vars

TypeOK ==
    /\ pc \in {"idle", "betting", "for", "decide", "apply", "endpass",
               "returned", "showdown", "reset", "hung", "crashed",
               "cut", "shuffle", "deal", "hand", "evaluated", "again",
               "rotated"}
    /\ ToSet(players) \subseteq Seats
    /\ pc \in {"for", "decide", "apply", "endpass"} => idx \in 1..(Len(action_order) + 1)

\* ============================================== the cards of a round
\* Spec follows the cards by their number only.  DeckSpec follows the same
\* play_round card by card - the deck, the hole cards and the community
\* cards - and keeps of betting_round only its effect on active_players.

\* what the dealing never touches
DeckFrame == UNCHANGED <<kind, chips, pot, current_bet, action_order,
                         players_who_acted, all_bets_equal, idx, pending,
                         decisions, last_raiser, asked_since_raise,
                         asked_before_raise, before, allin_raiser,
                         asked_since_allin, last_asked, evaluated, scores>>

DeckInit ==
    /\ players = [i \in 1..NumSeats |-> i]
    /\ kind = [p \in Seats |-> "human"]
    /\ chips = [p \in Seats |-> StartChips]
    /\ player_bet = [p \in Seats |-> 0]
    /\ folded = [p \in Seats |-> FALSE]
    /\ all_in = [p \in Seats |-> FALSE]
    /\ is_small_blind = [p \in Seats |-> FALSE]
    /\ is_big_blind = [p \in Seats |-> FALSE]
    /\ hand = [p \in Seats |-> 0]
    /\ pot = 0
    /\ current_bet = 0
    /\ dealer_position = -1
    /\ game_stage = "pre-flop"
    /\ community_cards = 0
    /\ active_players = <<>>
    /\ round_active = FALSE
    /\ action_order = <<>>
    /\ players_who_acted = {}
    /\ all_bets_equal = TRUE
    /\ idx = 1
    /\ pending = NoAction
    /\ pc = "idle"
    /\ rounds = 0
    /\ decisions = 0
    /\ last_raiser = 0
    /\ asked_since_raise = {}
    /\ asked_before_raise = {}
    /\ before = NoBefore
    /\ allin_raiser = 0
    /\ asked_since_allin = {}
    /\ cards = <<>>
    /\ hole = [p \in Seats |-> <<>>]
    /\ board = <<>>
    /\ last_asked = 0
    /\ evaluated = NoEvaluation
    /\ scores = NoScores

\* start_new_round, lines 108-115: drop the broke players, build the deck
NewRoundDeck ==
    /\ pc = "idle"
    /\ rounds < MaxRounds
    /\ rounds' = rounds + 1
    /\ LET ps == remove_broke_players(players) IN
       /\ players' = ps
       /\ IF Len(ps) < 2
          THEN /\ round_active' = FALSE
               /\ pc' = "idle"
               /\ UNCHANGED cards
          ELSE /\ cards' = NewDeck
               /\ pc' = "cut"
               /\ UNCHANGED round_active
    /\ UNCHANGED <<player_bet, folded, all_in, is_small_blind, is_big_blind,
                   hand, dealer_position, game_stage, community_cards,
                   active_players, hole, board>>
    /\ DeckFrame

\* start_new_round, line 116: self.deck.cut()
CutDeck ==
    /\ pc = "cut"
    /\ \E cut_index \in 0..Len(cards) : cards' = cut(cards, cut_index)
    /\ pc' = "shuffle"
    /\ UNCHANGED <<players, player_bet, folded, all_in, is_small_blind,
                   is_big_blind, hand, dealer_position, game_stage,
                   community_cards, active_players, round_active, rounds,
                   hole, board>>
    /\ DeckFrame

\* start_new_round, lines 117-123: shuffle, clear the table
ShuffleDeck ==
    /\ pc = "shuffle"
    /\ cards' \in Shuffles(cards)
    /\ board' = <<>>
    /\ community_cards' = 0
    /\ game_stage' = "pre-flop"
    /\ round_active' = TRUE
    /\ pc' = "deal"
    /\ UNCHANGED <<players, player_bet, folded, all_in, is_small_blind,
                   is_big_blind, hand, dealer_position, active_players,
                   rounds, hole>>
    /\ DeckFrame

\* start_new_round, lines 126-137: rotate the positions, reset and deal every
\* active player's hand, collect the blinds.  An empty deck ends the round
\* with IndexError at the deal that found it.
DealHands ==
    /\ pc = "deal"
    /\ LET rot == rotate_positions(players)
           act == SelectSeq(players, LAMBDA p : chips[p] > 0)
           g   == deal_hands(act, 1, [cards |-> cards, hole |-> hole,
                                      reached |-> {}, err |-> FALSE])
           reset(p) == p \in g.reached
       IN  /\ dealer_position' = rot.dealer_position
           /\ active_players' = act
           /\ cards' = g.cards
           /\ hole' = g.hole
           /\ hand' = [p \in Seats |-> Len(g.hole[p])]
           /\ player_bet' = [p \in Seats |-> IF reset(p) THEN 0 ELSE player_bet[p]]
           /\ folded' = [p \in Seats |-> IF reset(p) THEN FALSE ELSE folded[p]]
           /\ all_in' = [p \in Seats |-> IF reset(p) THEN FALSE ELSE all_in[p]]
           /\ is_small_blind' = [p \in Seats |->
                  IF reset(p) THEN FALSE ELSE rot.is_small_blind[p]]
           /\ is_big_blind' = [p \in Seats |->
                  IF reset(p) THEN FALSE ELSE rot.is_big_blind[p]]
           \* every flag read by collect_blinds has been cleared by reset_hand
           /\ pc' = IF g.err THEN "crashed" ELSE "betting"
    /\ UNCHANGED <<players, game_stage, community_cards, round_active, rounds,
                   board>>
    /\ DeckFrame

\* betting_round, as far as the cards are concerned: any of the active
\* players may have folded and left active_players when it returns
FoldsDuringBetting ==
    /\ pc = "betting"
    /\ \E out \in SUBSET ToSet(active_players) :
          /\ active_players' = SelectSeq(active_players, LAMBDA p : p \notin out)
          /\ folded' = [p \in Seats |-> IF p \in out THEN TRUE ELSE folded[p]]
    /\ pc' = "returned"
    /\ UNCHANGED <<players, player_bet, all_in, is_small_blind, is_big_blind,
                   hand, dealer_position, game_stage, community_cards,
                   round_active, rounds, cards, hole, board>>
    /\ DeckFrame

\* play_round, lines 304-319: the next street and its community cards while
\* more than one player is active, else the showdown
DealStreet ==
    /\ pc = "returned"
    /\ IF Len(active_players) > 1 /\ game_stage # "river"
       THEN LET g == deal_community_cards(
                         IF game_stage = "pre-flop" THEN 3 ELSE 1,
                         [cards |-> cards, board |-> board, err |-> FALSE])
            IN  /\ game_stage' = NextStage(game_stage)
                /\ cards' = g.cards
                /\ board' = g.board
                /\ community_cards' = Len(g.board)
                /\ pc' = IF g.err THEN "crashed" ELSE "betting"
       ELSE /\ pc' = "showdown"
            /\ UNCHANGED <<game_stage, cards, board, community_cards>>
    /\ UNCHANGED <<players, player_bet, folded, all_in, is_small_blind,
                   is_big_blind, hand, dealer_position, active_players,
                   round_active, rounds, hole>>
    /\ DeckFrame

\* play_round, lines 322-323: showdown (the pot is empty here) and reset_round
SettleAndReset ==
    /\ pc = "showdown"
    /\ board' = <<>>
    /\ community_cards' = 0
    /\ game_stage' = "pre-flop"
    /\ round_active' = FALSE
    /\ LET inGame(p) == p \in ToSet(players) IN
       /\ hole' = [p \in Seats |-> IF inGame(p) THEN <<>> ELSE hole[p]]
       /\ hand' = [p \in Seats |-> IF inGame(p) THEN 0 ELSE hand[p]]
       /\ player_bet' = [p \in Seats |-> IF inGame(p) THEN 0 ELSE player_bet[p]]
       /\ folded' = [p \in Seats |-> IF inGame(p) THEN FALSE ELSE folded[p]]
       /\ all_in' = [p \in Seats |-> IF inGame(p) THEN FALSE ELSE all_in[p]]
       /\ is_small_blind' = [p \in Seats |-> IF inGame(p) THEN FALSE ELSE is_small_blind[p]]
       /\ is_big_blind' = [p \in Seats |-> IF inGame(p) THEN FALSE ELSE is_big_blind[p]]
    /\ pc' = "idle"
    /\ UNCHANGED <<players, dealer_position, active_players, rounds, cards>>
    /\ DeckFrame

DeckNext ==
    \/ NewRoundDeck
    \/ CutDeck
    \/ ShuffleDeck
    \/ DealHands
    \/ FoldsDuringBetting
    \/ DealStreet
    \/ SettleAndReset

DeckSpec == DeckInit /\ [][DeckNext]_vars

\* ------------------------------------------------- the evaluator on its own
\* evaluate_hand applied to hands of five to seven cards: hole[1] is the hand,
\* board the community cards, scores[1] what it returned.
\* The cards the hands are drawn from.
EvalCards ==
    <<Card("Hearts", "10"), Card("Hearts", "Jack"), Card("Hearts", "Queen"),
      Card("Hearts", "King"), Card("Hearts", "Ace"), Card("Diamonds", "Ace"),
      Card("Clubs", "Ace"), Card("Spades", "Ace"), Card("Diamonds", "King"),
      Card("Hearts", "2"), Card("Hearts", "3"), Card("Hearts", "4"),
      Card("Hearts", "5")>>

\* the cards of EvalCards at the positions I, in the order of EvalCards
ListOf(I) == LET at == sorted(I) IN [k \in 1..Len(at) |-> EvalCards[at[k]]]

\* the first k cards of l as the hand, the others as the community cards
Split(l, k) ==
    [hole  |-> [p \in Seats |-> IF p = 1 THEN SubSeq(l, 1, k) ELSE <<>>],
     board |-> SubSeq(l, k + 1, Len(l))]

EvalFrame == UNCHANGED <<players, kind, chips, player_bet, folded, all_in,
                         is_small_blind, is_big_blind, hand, pot, current_bet,
                         dealer_position, game_stage, community_cards,
                         active_players, round_active, action_order,
                         players_who_acted, all_bets_equal, idx, pending,
                         rounds, decisions, last_raiser, asked_since_raise,
                         asked_before_raise, before, allin_raiser,
                         asked_since_allin, cards, last_asked>>

EvalInit ==
    /\ players = [i \in 1..NumSeats |-> i]
    /\ kind = [p \in Seats |-> "human"]
    /\ chips = [p \in Seats |-> StartChips]
    /\ player_bet = [p \in Seats |-> 0]
    /\ folded = [p \in Seats |-> FALSE]
    /\ all_in = [p \in Seats |-> FALSE]
    /\ is_small_blind = [p \in Seats |-> FALSE]
    /\ is_big_blind = [p \in Seats |-> FALSE]
    /\ hand = [p \in Seats |-> 0]
    /\ pot = 0
    /\ current_bet = 0
    /\ dealer_position = -1
    /\ game_stage = "pre-flop"
    /\ community_cards = 0
    /\ active_players = <<>>
    /\ round_active = FALSE
    /\ action_order = <<>>
    /\ players_who_acted = {}
    /\ all_bets_equal = TRUE
    /\ idx = 1
    /\ pending = NoAction
    /\ pc = "hand"
    /\ rounds = 0
    /\ decisions = 0
    /\ last_raiser = 0
    /\ asked_since_raise = {}
    /\ asked_before_raise = {}
    /\ before = NoBefore
    /\ allin_raiser = 0
    /\ asked_since_allin = {}
    /\ cards = <<>>
    /\ \E I \in SUBSET (1..Len(EvalCards)) :
          /\ Cardinality(I) \in 5..7
          /\ hole = Split(ListOf(I), 2).hole
          /\ board = Split(ListOf(I), 2).board
    /\ last_asked = 0
    /\ evaluated = NoEvaluation
    /\ scores = NoScores

\* evaluate_hand(hand, community_cards) for the cards l split after the k-th
Evaluated(l, k) ==
    /\ hole' = Split(l, k).hole
    /\ board' = Split(l, k).board
    /\ scores' = [NoScores EXCEPT ![1] = evaluate_hand(hole'[1], board')]
    /\ evaluated' = [NoEvaluation EXCEPT ![1] = Len(l)]
    /\ EvalFrame

\* the first call
Evaluate ==
    /\ pc = "hand"
    /\ pc' = "evaluated"
    /\ Evaluated(hole[1] \o board, Len(hole[1]))

\* a second call after two neighbouring cards have changed places
SwapAndEvaluate ==
    /\ pc = "evaluated"
    /\ pc' = "again"
    /\ LET l == hole[1] \o board
       IN  \E i \in 1..(Len(l) - 1) :
              Evaluated([l EXCEPT ![i] = l[i + 1], ![i + 1] = l[i]], Len(hole[1]))

\* a second call with the cards in the opposite order
ReverseAndEvaluate ==
    /\ pc = "evaluated"
    /\ pc' = "again"
    /\ Evaluated(Reverse(hole[1] \o board), Len(hole[1]))

\* a second call with the last card moved to the front
RotateAndEvaluate ==
    /\ pc = "evaluated"
    /\ pc' = "again"
    /\ LET l == hole[1] \o board
       IN  Evaluated(<<l[Len(l)]>> \o SubSeq(l, 1, Len(l) - 1), Len(hole[1]))

\* a second call with the same cards split elsewhere between hand and
\* community cards
SplitAndEvaluate ==
    /\ pc = "evaluated"
    /\ pc' = "again"
    /\ LET l == hole[1] \o board
       IN  \E k \in 0..Len(l) : k # Len(hole[1]) /\ Evaluated(l, k)

EvalNext ==
    \/ Evaluate
    \/ SwapAndEvaluate
    \/ ReverseAndEvaluate
    \/ RotateAndEvaluate
    \/ SplitAndEvaluate

EvalSpec == EvalInit /\ [][EvalNext]_vars

\* ===================================================================== claims
\* seats still in the round that can still be asked
EligibleSeats == {p \in ToSet(active_players) : ~folded[p] /\ ~all_in[p]}

\* control points inside betting_round
InBetting == pc \in {"for", "decide", "apply", "endpass"}

\* control points between the deal of the hole cards and the showdown
BeforeShowdown == pc \in {"betting", "for", "decide", "apply", "endpass", "returned"}

TotalChips == SumOver(chips, Seats) + pot

\* every eligible seat is in the acted set and has matched current_bet
Settled == \A p \in EligibleSeats :
               p \in players_who_acted /\ player_bet[p] = current_bet

\* C1: from the deal until the pot is awarded, every step of the round
\* (every provider call and every applied fold, check, call, raise, all-in)
\* leaves the sum of all stacks plus the pot unchanged.
C1_ChipsConserved == [][BeforeShowdown => TotalChips' = TotalChips]_vars

\* C2: whenever betting_round has returned with at least two seats neither
\* folded nor all-in, each of those seats is in the acted set and its bet
\* equals current_bet.
C2_ReturnMeansSettled ==
    (pc = "returned" /\ Cardinality(EligibleSeats) >= 2) => Settled

\* C3: no decision is requested once every seat that is neither folded nor
\* all-in has acted since the last raise and matched current_bet.
C3_NoDecisionOnceSettled == pc = "decide" => ~Settled

\* C4: when betting_round has returned after a raise, every seat other than
\* the last raiser that is neither folded nor all-in has been asked for, and
\* has answered, a new decision since that raise; and when at least two such
\* seats are left (the street completed, the round did not end), each of them
\* is in the acted set, i.e. answered with an action the engine accepted.
C4_RaiseReopens ==
    (pc = "returned" /\ last_raiser # 0) =>
        \A q \in EligibleSeats \ {last_raiser} :
            /\ q \in asked_since_raise
            /\ Cardinality(EligibleSeats) >= 2 => q \in players_who_acted

\* C4 witness: the round returned after a raise, and a seat that had already
\* answered before the raise answered again after it and is still eligible.
C4_Witness ==
    /\ pc = "returned"
    /\ last_raiser # 0
    /\ \E q \in EligibleSeats \ {last_raiser} :
          q \in asked_before_raise /\ q \in asked_since_raise

\* C5: no decision is requested while a single non-folded seat is left.
C5_NoDecisionForLastSeat == pc = "decide" => Len(active_players) >= 2

\* C6: at the showdown with one non-folded seat left, that seat's stack grows
\* by the whole pot and no other stack changes.
C6_SoleSeatWinsPot ==
    [][(pc = "showdown" /\ Len(active_players) = 1) =>
          chips' = [chips EXCEPT ![active_players[1]] = @ + pot]]_vars

\* C6 witness: the showdown has just paid a non-empty pot to the only seat
\* left, the other seats having folded.
C6_Witness ==
    /\ pc = "reset"
    /\ Len(active_players) = 1
    /\ pot > 0
    /\ \A p \in ToSet(players) \ ToSet(active_players) : folded[p]

\* C7: inside a betting round current_bet never decreases.
C7_CurrentBetMonotone == [][InBetting => current_bet' >= current_bet]_vars

\* no decision has been answered yet in the current betting round
FirstDecisionOfStreet == last_raiser = 0 /\ asked_since_raise = {}

\* C8: when the first decision of the flop, turn or river is requested,
\* current_bet and every player's bet are 0.
C8_StreetStartsAtZero ==
    (pc = "decide" /\ game_stage # "pre-flop" /\ FirstDecisionOfStreet) =>
        /\ current_bet = 0
        /\ \A p \in ToSet(players) : player_bet[p] = 0

\* the engine is about to apply a check by a seat whose bet is below current_bet
IllegalCheck ==
    /\ pc = "apply"
    /\ pending.action = "check"
    /\ player_bet[CurrentPlayer] < current_bet

C10_LowRaiseRejected ==
    [][(pc = "apply" /\ pending.action = "raise" /\ pending.amount <= current_bet) =>
          /\ folded'[CurrentPlayer]
          /\ pot' = pot
          /\ current_bet' = current_bet
          /\ chips'[CurrentPlayer] = chips[CurrentPlayer]]_vars

\* the engine is about to apply an action of the given kind for the asked seat
Applying(a) == pc = "apply" /\ pending.action = a

\* C11: a raise to an amount that the seat's stack covers takes exactly
\* (amount - the seat's bet so far) from the seat's stack, adds the same to the
\* pot, and leaves the seat's bet equal to amount, which is current_bet.  Stack,
\* bet and pot are compared with what they were when the decision was requested.
C11_RaiseMovesDifference ==
    [][(Applying("raise") /\ pending.amount - before.bet <= before.chips) =>
          LET p == CurrentPlayer
              moved == pending.amount - before.bet
          IN  /\ chips'[p] = before.chips - moved
              /\ pot' = before.pot + moved
              /\ player_bet'[p] = pending.amount
              /\ current_bet' = pending.amount]_vars

\* C12: a raise to an amount the seat's stack does not cover raises no error:
\* the seat commits its whole remaining stack and is marked all-in.
C12_OverRaiseIsAllIn ==
    [][(Applying("raise") /\ pending.amount - before.bet > before.chips) =>
          LET p == CurrentPlayer
          IN  /\ pc' # "crashed"
              /\ chips'[p] = 0
              /\ all_in'[p]
              /\ player_bet'[p] = before.bet + before.chips
              /\ pot' = before.pot + before.chips]_vars

\* C13: a call by a seat whose bet is below current_bet moves exactly
\* min(current_bet - bet, stack) from the seat's stack to the pot, and the seat
\* is all-in afterwards exactly when its stack is then 0.  Stack, bet and pot
\* are compared with what they were when the decision was requested.
C13_CallMovesDifference ==
    [][(Applying("call") /\ before.bet < before.current_bet) =>
          LET p == CurrentPlayer
              moved == Min2(before.current_bet - before.bet, before.chips)
          IN  /\ chips'[p] = before.chips - moved
              /\ pot' = before.pot + moved
              /\ all_in'[p] <=> (chips'[p] = 0)]_vars

\* C13 restricted to Player seats, whose get_action touches nothing
C13_HumanCallMovesDifference ==
    [][(Applying("call") /\ before.bet < before.current_bet
            /\ kind[CurrentPlayer] = "human") =>
          LET p == CurrentPlayer
              moved == Min2(before.current_bet - before.bet, before.chips)
          IN  /\ chips'[p] = before.chips - moved
              /\ pot' = before.pot + moved
              /\ all_in'[p] <=> (chips'[p] = 0)]_vars

\* C14: an all-in that takes the seat's bet above current_bet raises
\* current_bet to that bet, and betting_round does not return afterwards until
\* every other seat that is neither folded nor all-in has answered a new
\* decision.
C14_AllInRaiseReopens ==
    [][/\ (Applying("all-in")
             /\ player_bet[CurrentPlayer] + chips[CurrentPlayer] > current_bet) =>
              current_bet' = player_bet[CurrentPlayer] + chips[CurrentPlayer]
       /\ (pc' = "returned" /\ allin_raiser' # 0) =>
              \A q \in EligibleSeats' \ {allin_raiser'} :
                  q \in asked_since_allin']_vars

\* C15: a folded seat is never asked for a decision, on any later turn or
\* street of the round; when betting_round has returned and at the showdown no
\* folded seat is among the seats the winner is chosen from, and the showdown
\* leaves every folded seat's stack as it was.
C15_FoldedSeatIsOut ==
    [][/\ pc' = "decide" => ~folded'[CurrentPlayer']
       /\ pc' \in {"returned", "showdown"} =>
              \A p \in ToSet(active_players') : ~folded'[p]
       /\ pc = "showdown" =>
              \A p \in ToSet(players) : folded[p] => chips'[p] = chips[p]]_vars

\* C15 witness: on a later street a decision is requested while a seat that
\* folded earlier in the round sits at the table.
C15_Witness ==
    /\ pc = "decide"
    /\ game_stage # "pre-flop"
    /\ \E p \in ToSet(players) : folded[p]

\* C19: from the deal until the showdown no step makes the pot smaller.
C19_PotNeverDecreases == [][BeforeShowdown => pot' >= pot]_vars

\* every card on the table: the hole cards of all seats, then the community cards
RECURSIVE HoleCards(_)
HoleCards(i) == IF i > Len(players) THEN <<>>
                ELSE hole[players[i]] \o HoleCards(i + 1)

Dealt == HoleCards(1) \o board

\* C16: within a round no card identity (suit, rank) is dealt twice over all
\* seats' hole cards and the community cards.
C16_NoCardDealtTwice ==
    \A i, j \in 1..Len(Dealt) : Dealt[i] = Dealt[j] => i = j

\* C17: with seat count x 2 + 5 <= 52 at the start of the round, no deal of the
\* round finds the deck empty.
C17_DeckNeverExhausted ==
    Len(players) * 2 + 5 <= 52 => pc # "crashed"

\* C18: a newly constructed Deck holds exactly 52 cards, one for each
\* combination of a suit and a rank.
C18_NewDeckHas52 ==
    pc = "cut" =>
        /\ Len(cards) = 52
        /\ \A i \in 1..Len(SUITS) : \A j \in 1..Len(RANKS) :
              Cardinality({k \in 1..Len(cards) :
                              cards[k] = Card(SUITS[i], RANKS[j])}) = 1

\* C18 witness: start_new_round has just built the deck of a round.
C18_Witness ==
    /\ pc = "cut"
    /\ rounds >= 1
    /\ Len(cards) > 0

\* community cards on the table at each stage
StageCards(st) == IF st = "pre-flop" THEN 0
                  ELSE IF st = "flop" THEN 3
                  ELSE IF st = "turn" THEN 4 ELSE 5

\* C20: within a round the stage moves only one street forward, from a
\* returned betting round into the next one; community cards are dealt only
\* while more than one seat is active; and the number of community cards is
\* the number of the stage (0, 3, 4, 5).
C20_StreetsAndCommunityCards ==
    [][/\ (game_stage' # game_stage /\ game_stage' # "pre-flop") =>
              /\ game_stage # "river"
              /\ game_stage' = NextStage(game_stage)
              /\ pc = "returned"
       /\ Len(board') > Len(board) => Len(active_players) > 1
       /\ Len(board') = StageCards(game_stage')
       /\ community_cards' = Len(board')]_vars

\* C20 on the count of community cards alone, where the deck is not followed
C20_StreetsAndCounts ==
    [][/\ (game_stage' # game_stage /\ game_stage' # "pre-flop") =>
              /\ game_stage # "river"
              /\ game_stage' = NextStage(game_stage)
              /\ pc = "returned"
              /\ pc' = "betting"
       /\ community_cards' > community_cards => Len(active_players) > 1
       /\ community_cards' = StageCards(game_stage')]_vars

\* C24: when start_new_round returns with a round started, the small-blind
\* and the big-blind seat named by rotate_positions have each posted their
\* blind, capped at their stack: the pot is the sum of the two posts and each
\* of the two stacks is lower by its post.
C24_BlindsCollected ==
    [][(pc = "idle" /\ pc' = "betting") =>
          LET ps  == remove_broke_players(players)
              rot == rotate_positions(ps)
              sbp == CHOOSE p \in ToSet(ps) : rot.is_small_blind[p]
              bbp == CHOOSE p \in ToSet(ps) : rot.is_big_blind[p]
              sb  == Min2(small_blind, chips[sbp])
              bb  == Min2(big_blind, chips[bbp])
          IN  /\ pot' = sb + bb
              /\ chips'[sbp] = chips[sbp] - sb
              /\ chips'[bbp] = chips[bbp] - bb]_vars

\* C25: the step in which a decision is requested from a provider changes no
\* seat's stack, committed-this-street, folded flag or all-in flag.
C25_AskingChangesNothing ==
    [][pc = "decide" => UNCHANGED <<chips, player_bet, folded, all_in>>]_vars

\* C26: in every reachable state every seat's stack and committed-this-street
\* are non-negative.
C26_StacksAndBetsNonNegative ==
    \A p \in Seats : chips[p] >= 0 /\ player_bet[p] >= 0

\* C27: evaluate_hand is never called with fewer than 5 cards (hole cards
\* plus community cards) for any seat.
C27_EvaluatedWithFiveCards ==
    \A p \in Seats : evaluated[p] # NoEvaluation[p] => evaluated[p] >= 5

\* the hands of five cards that can be taken out of the cards l
FiveCardSubsets(l) ==
    {[k \in 1..5 |-> l[sorted(I)[k]]] :
        I \in {J \in SUBSET (1..Len(l)) : Cardinality(J) = 5}}

\* a outranks b: the category decides, and between equal categories the
\* first tiebreak entry in which they differ
Outranks(a, b) ==
    \/ a.rank > b.rank
    \/ /\ a.rank = b.rank
       /\ \E i \in 1..Min2(Len(a.high), Len(b.high)) :
             /\ a.high[i] > b.high[i]
             /\ \A j \in 1..(i - 1) : a.high[j] = b.high[j]

\* C28: every hand of five cards among the evaluated cards gets a category in
\* 1..10, and the evaluator's comparison lets the strictly higher category
\* win whatever the tiebreak lists are: no five cards of the hand have a
\* higher category than the result, and against the results of the showdown
\* hands the higher category is the better one in both directions.
C28_CategoryDecides ==
    pc = "evaluated" =>
        /\ scores[1].rank \in 1..10
        /\ \A c \in FiveCardSubsets(hole[1] \o board) :
              LET r == evaluate_five_card_hand(c)
              IN  r.rank \in 1..10 /\ r.rank <= scores[1].rank
        /\ \A s \in Scores :
              /\ s.rank > scores[1].rank =>
                    /\ better(s.rank, s.high, scores[1].rank, scores[1].high)
                    /\ ~better(scores[1].rank, scores[1].high, s.rank, s.high)
              /\ s.rank < scores[1].rank =>
                    /\ better(scores[1].rank, scores[1].high, s.rank, s.high)
                    /\ ~better(s.rank, s.high, scores[1].rank, scores[1].high)

\* a hand evaluated to a category although five of its cards, of a lower
\* category, have the greater tiebreak list
C28_Witness ==
    /\ pc = "evaluated"
    /\ Len(hole[1] \o board) = 7
    /\ \E c \in FiveCardSubsets(hole[1] \o board) :
          LET r == evaluate_five_card_hand(c)
          IN  r.rank < scores[1].rank /\ ListGreater(r.high, scores[1].high)

\* C29: evaluating the same cards again in another order, or split elsewhere
\* between hand and community cards, returns the same result.
C29_OrderAndSplitIrrelevant ==
    [][(pc = "evaluated" /\ pc' = "again") =>
          /\ ToSet(hole'[1] \o board') = ToSet(hole[1] \o board)
          /\ scores'[1] = scores[1]]_vars

\* a full house evaluated a second time with its seven cards reversed
C29_Witness ==
    /\ pc = "again"
    /\ hole[1] = <<Card("Hearts", "5"), Card("Hearts", "4")>>
    /\ Len(board) = 5
    /\ scores[1].rank = HAND_RANKS["Full House"]

\* C30: for five to seven distinct cards evaluate_hand returns the result of
\* one of the hands of five cards among them, and none of those hands
\* outranks it (category first, tiebreak entry by entry second).
C30_BestOfAllSubsets ==
    pc = "evaluated" =>
        LET results == {evaluate_five_card_hand(c) :
                           c \in FiveCardSubsets(hole[1] \o board)}
        IN  /\ scores[1] \in results
            /\ \A r \in results : ~Outranks(r, scores[1])

\* seven cards whose best five are not the first five and win on the
\* tiebreak against five cards of the same category
C30_Witness ==
    /\ pc = "evaluated"
    /\ Len(hole[1] \o board) = 7
    /\ LET l == hole[1] \o board
           first == evaluate_five_card_hand(SubSeq(l, 1, 5))
       IN  first.rank = scores[1].rank /\ Outranks(scores[1], first)

\* the eligible seat that comes first clockwise of the seat given, which is
\* itself the last candidate
NextEligibleAfter(seat) ==
    LET n    == Len(players)
        i0   == CHOOSE i \in 1..n : players[i] = seat
        at(k) == players[((i0 - 1 + k) % n) + 1]
        cand == {k \in 1..n : Eligible(at(k))}
    IN  at(MinOf(cand))

\* C23: in each street the first decision is requested from the first
\* eligible seat clockwise of the dealer button, and every later one from
\* the first eligible seat clockwise of the seat asked before it, folded and
\* all-in seats being skipped.
C23_AskedInSeatingOrder ==
    [][(pc = "decide" /\ pc' = "apply") =>
          CurrentPlayer = NextEligibleAfter(IF last_asked = 0
                                            THEN players[dealer_position + 1]
                                            ELSE last_asked)]_vars

\* the seats of the round that have not folded
NonFolded == {p \in ToSet(active_players) : ~folded[p]}

\* the non-folded seats no other non-folded seat outranks, given the results
Best(result) == {p \in NonFolded : \A q \in NonFolded : ~Outranks(result[q], result[p])}

\* C21: at a showdown between several non-folded seats one of them is paid
\* the entire pot and nobody else is paid anything, and no non-folded seat's
\* (category, tiebreak) outranks that of the seat paid.
C21_BestHandWinsPot ==
    [][(pc = "showdown" /\ Len(active_players) > 1) =>
          \E w \in Best(scores') : chips' = [chips EXCEPT ![w] = @ + pot]]_vars

\* a showdown settled with chips in the pot in which the seat first in
\* order did not have the best hand
C21_Witness ==
    /\ pc = "reset"
    /\ Len(active_players) > 1
    /\ pot > 0
    /\ active_players[1] \notin Best(scores)

\* C22: when several non-folded seats share the maximal (category, tiebreak),
\* the one of them that comes first in active_players is paid the entire pot
\* and no other seat's stack changes.
C22_TieGoesToFirst ==
    [][(pc = "showdown" /\ Len(active_players) > 1 /\ Cardinality(Best(scores')) > 1) =>
          LET at == MinOf({i \in 1..Len(active_players) :
                              active_players[i] \in Best(scores')})
          IN  chips' = [chips EXCEPT ![active_players[at]] = @ + pot]]_vars

\* a showdown settled with chips in the pot in which two seats tied at the top
C22_Witness ==
    /\ pc = "reset"
    /\ Len(active_players) > 1
    /\ pot > 0
    /\ Cardinality(Best(scores)) > 1

\* the ranks of the cards evaluated
RanksEvaluated == {RankValue((hole[1] \o board)[i].rank) : i \in 1..Len(hole[1] \o board)}

\* five distinct consecutive ranks, the Ace read as 14
ConsecutiveAceHigh(R) == Cardinality(R) = 5 /\ MaxOf(R) - MinOf(R) = 4

\* A, 2, 3, 4, 5: five consecutive ranks with the Ace read as 1
Wheel(R) == R = {14, 2, 3, 4, 5}

\* C31: a hand of five cards is found to be a straight exactly when its ranks
\* are five distinct consecutive values with the Ace read as 14 or as 1; the
\* high rank reported is 5 for A,2,3,4,5 and the highest rank otherwise (14
\* for 10,J,Q,K,A), and the hand is given a straight category (Straight,
\* Straight Flush, Royal Flush) exactly in that case.
C31_StraightDetection ==
    (pc = "evaluated" /\ Len(hole[1] \o board) = 5) =>
        LET l == hole[1] \o board
            R == RanksEvaluated
            found == is_straight([i \in 1..5 |-> RankValue(l[i].rank)])
            straight == ConsecutiveAceHigh(R) \/ Wheel(R)
            expected == IF Wheel(R) THEN 5 ELSE MaxOf(R)
            categories == {HAND_RANKS["Straight"], HAND_RANKS["Straight Flush"],
                           HAND_RANKS["Royal Flush"]}
        IN  /\ found.ok <=> straight
            /\ straight => found.high = expected
            /\ scores[1].rank \in categories <=> straight
            /\ straight => scores[1].high = <<expected>>

\* A,2,3,4,5 of mixed suits evaluated as a straight
C31_Witness ==
    /\ pc = "evaluated"
    /\ Len(hole[1] \o board) = 5
    /\ Wheel(RanksEvaluated)
    /\ scores[1] = [rank |-> HAND_RANKS["Straight"], high |-> <<5>>]

\* C32: Deck.cut only reorders the deck: whatever the cut index, the deck
\* afterwards holds the cards it held before, each of the 52 exactly once.
C32_CutOnlyReorders ==
    [][pc = "cut" =>
          /\ Len(cards') = Len(cards)
          /\ \A c \in ToSet(cards) \cup ToSet(cards') :
                Count(cards', c) = Count(cards, c)]_vars

\* C33: the construction of the action order at the start of betting_round
\* always comes to an end, also when a seat of the round is already all-in.
C33_ActionOrderBuilt == pc # "hung"

\* C34: when the round settles, the pot is added to exactly one seat's stack,
\* so the stacks afterwards hold what the stacks and the pot held before.
C34_PotGoesToOneSeat ==
    [][pc = "showdown" =>
          /\ \E w \in ToSet(players) : chips' = [chips EXCEPT ![w] = @ + pot]
          /\ SumOver(chips', Seats) = SumOver(chips, Seats) + pot]_vars

\* the seat rotate_positions has made the small blind, and the big blind
SmallBlindSeat == CHOOSE p \in ToSet(players) : is_small_blind[p]
BigBlindSeat == CHOOSE p \in ToSet(players) : is_big_blind[p]

\* C35: after collect_blinds, current_bet is the big blind that was posted
\* (the big blind capped at the big-blind seat's stack), wherever the two
\* blind seats sit in the players list.
C35_CurrentBetIsBigBlind ==
    [][pc = "rotated" =>
          current_bet' = Min2(big_blind, chips[BigBlindSeat])]_vars

\* what seat p has posted of the blind: the part of one of the stacks of
\* BlindStacks that is missing from its stack
Posted(p, blind) ==
    CHOOSE a \in 0..blind :
        \E st \in BlindStacks : a = Min2(blind, st) /\ chips[p] = st - a

C37_RoundActiveAfterSettledRound ==
    [][pc = "reset" => round_active']_vars

\* the players of the table that have chips
WithChips == {p \in ToSet(players) : chips[p] > 0}

\* C38: play_round called with fewer than two players that have chips starts
\* no round: no card is dealt, no decision is requested, and the stacks, the
\* pot and the dealer position stay as they are.
C38_RoundDoesNotStart ==
    [][(pc = "idle" /\ Cardinality(WithChips) < 2) =>
          /\ pc' = "idle"
          /\ ~round_active'
          /\ hand' = hand
          /\ community_cards' = community_cards
          /\ cards' = cards
          /\ decisions' = decisions
          /\ last_asked' = last_asked
          /\ chips' = chips
          /\ pot' = pot
          /\ dealer_position' = dealer_position]_vars

\* play_round has been called a second time with one player left with chips
C38_Witness ==
    /\ pc = "idle"
    /\ rounds > 1
    /\ Len(players) < 2
    /\ ~round_active

====
